---- MODULE Spec2Model ----
(***************************************************************************)
(* Model of monitor_bgsds.py: a polling monitor that lists the bulletins   *)
(* of a site, compares the newest one with a date kept in a local file     *)
(* and notifies a Telegram chat when the site has a newer bulletin.        *)
(*                                                                         *)
(* A date is the integer yyyymmdd, which orders as datetime does.  A text  *)
(* is a sequence of one-character strings.  A link text is a record of the *)
(* parts the code looks at: the series marker, the token in front of the   *)
(* date and the three groups <dia><mes><ano> that follow it.               *)
(***************************************************************************)
EXTENDS Integers, Sequences, FiniteSets, TLC

(* ---------------------------------------------------------------- bounds *)
\* Longest listing page (number of <a> elements) the model explores.
MaxLinks == 2
\* Longest listing page handed to lista_boletins on its own.
MaxLista == 3
\* Largest day number written in a link text handed to parse_data.
MaxDia == 32
\* Longest text of one PDF page, and longest list of keywords.
MaxTexto == 2
MaxPalavras == 2

(* ------------------------------------------------------------- constants *)
\* MESES: month abbreviation -> month number (0 when the key is missing,
\* which is what MESES.get returns as None).
MESES(abrev) ==
    CASE abrev = << "J", "A", "N" >> -> 1  [] abrev = << "F", "E", "V" >> -> 2
      [] abrev = << "M", "A", "R" >> -> 3  [] abrev = << "A", "B", "R" >> -> 4
      [] abrev = << "M", "A", "I" >> -> 5  [] abrev = << "J", "U", "N" >> -> 6
      [] abrev = << "J", "U", "L" >> -> 7  [] abrev = << "A", "G", "O" >> -> 8
      [] abrev = << "S", "E", "T" >> -> 9  [] abrev = << "O", "U", "T" >> -> 10
      [] abrev = << "N", "O", "V" >> -> 11 [] abrev = << "D", "E", "Z" >> -> 12
      [] OTHER -> 0

(* ------------------------------------------------------------ str methods *)
Minusculas ==
    << "a", "b", "c", "d", "e", "f", "g", "h", "i", "j", "k", "l", "m",
       "n", "o", "p", "q", "r", "s", "t", "u", "v", "w", "x", "y", "z" >>
Maiusculas ==
    << "A", "B", "C", "D", "E", "F", "G", "H", "I", "J", "K", "L", "M",
       "N", "O", "P", "Q", "R", "S", "T", "U", "V", "W", "X", "Y", "Z" >>

Translate(c, from, to) ==
    IF \E i \in 1..Len(from) : from[i] = c
    THEN to[CHOOSE i \in 1..Len(from) : from[i] = c]
    ELSE c

\* str.upper() and str.lower()
upper(s) == [i \in 1..Len(s) |-> Translate(s[i], Minusculas, Maiusculas)]
lower(s) == [i \in 1..Len(s) |-> Translate(s[i], Maiusculas, Minusculas)]

\* Python's None for a date, and the outcome "the call raised".
None == 0
Raised == -1

(* ------------------------------------------------------------ datetime() *)
IsLeap(ano) == (ano % 4 = 0 /\ ano % 100 # 0) \/ ano % 400 = 0

DaysInMonth(ano, mes) ==
    IF mes = 2 THEN (IF IsLeap(ano) THEN 29 ELSE 28)
    ELSE IF mes \in {4, 6, 9, 11} THEN 30 ELSE 31

\* datetime(ano, mes, dia): the date, or ValueError for an out-of-range one.
MkDate(ano, mes, dia) ==
    IF ano >= 1 /\ ano <= 9999 /\ mes >= 1 /\ mes <= 12
       /\ dia >= 1 /\ dia <= DaysInMonth(ano, mes)
    THEN ano * 10000 + mes * 100 + dia
    ELSE Raised

(* ------------------------------------------------------------ parse_data *)
\* re.search(r"DE\s*(\d{1,2})([A-Z]{3})(\d{4})", texto.upper()): texto.de
\* is the token in front of the digits, dia a number of one or two digits,
\* mes three characters and ano a number of four digits.
Search(texto) ==
    /\ upper(texto.de) = << "D", "E" >>
    /\ texto.dia \in 0..99
    /\ Len(texto.mes) = 3
    /\ \A i \in 1..3 :
          \E k \in 1..Len(Maiusculas) : upper(texto.mes)[i] = Maiusculas[k]
    /\ texto.ano \in 0..9999

\* parse_data without the .upper() of line 27.
parse_data_Case(texto) ==
    IF ~(texto.de = << "D", "E" >> /\ Search(texto)
           /\ texto.mes = upper(texto.mes)) THEN None
    ELSE IF MESES(texto.mes) = 0 THEN None
    ELSE MkDate(texto.ano, MESES(texto.mes), texto.dia)

parse_data(texto) ==
    IF ~Search(texto) THEN None
    ELSE IF MESES(upper(texto.mes)) = 0 THEN None
    ELSE MkDate(texto.ano, MESES(upper(texto.mes)), texto.dia)

(* ----------------------------------------------------------- the site    *)
Texto(n, marker, de, dia, mes, ano) ==
    [n |-> n, marker |-> marker, de |-> de, dia |-> dia, mes |-> mes, ano |-> ano]

\* "250 BGSDS DE 15MAR2024", "251 BGSDS DE 16MAR2024", a link of another
\* series dated later, and "252 BGSDS DE 31ABR2024" (no such day).
T250 == Texto(250, "BGSDS", << "D", "E" >>, 15, << "M", "A", "R" >>, 2024)
T251 == Texto(251, "BGSDS", << "D", "E" >>, 16, << "M", "A", "R" >>, 2024)
TOutro == Texto(7, "", << "D", "E" >>, 17, << "M", "A", "R" >>, 2024)
T252 == Texto(252, "BGSDS", << "D", "E" >>, 31, << "A", "B", "R" >>, 2024)

\* An <a> element: its text and its href (0 when the attribute is missing).
Link(texto, href) == [texto |-> texto, href |-> href]

Links == { Link(T250, 250), Link(T251, 251), Link(TOutro, 7), Link(T252, 252) }

RECURSIVE SeqsUpTo(_, _)
SeqsUpTo(S, n) ==
    IF n = 0 THEN { <<>> }
    ELSE LET shorter == SeqsUpTo(S, n - 1)
         IN  shorter \cup { Append(s, x) : s \in shorter, x \in S }

Pages == SeqsUpTo(Links, MaxLinks)

\* Every date a link of the model can carry.
Datas == { d \in { parse_data(l.texto) : l \in Links } : d > 0 }

(* -------------------------------------------------------- lista_boletins *)
\* The body of the for loop: does this link become a candidate?
Keeps(a) ==
    /\ a.texto.marker = "BGSDS"
    /\ parse_data(a.texto) # None
    /\ a.href # 0

\* parse_data is called on every link that carries the marker; the loop is
\* outside the try block, so a ValueError there leaves lista_boletins.
LoopRaises(page) ==
    \E i \in 1..Len(page) :
        /\ page[i].texto.marker = "BGSDS"
        /\ parse_data(page[i].texto) = Raised

Candidate(a) == << parse_data(a.texto), a.texto, a.href >>

RECURSIVE Collect(_)
Collect(page) ==
    IF page = <<>> THEN <<>>
    ELSE IF Keeps(Head(page))
         THEN << Candidate(Head(page)) >> \o Collect(Tail(page))
         ELSE Collect(Tail(page))

\* A sort that puts a candidate in front of those of the same date.
RECURSIVE InsertDesc_Unstable(_, _)
InsertDesc_Unstable(s, x) ==
    IF s = <<>> THEN << x >>
    ELSE IF Head(s)[1] > x[1]
         THEN << Head(s) >> \o InsertDesc_Unstable(Tail(s), x)
         ELSE << x >> \o s

\* list.sort(key=lambda x: x[0], reverse=True): descending by date, equal
\* dates keep their order.
RECURSIVE InsertDesc(_, _)
InsertDesc(s, x) ==
    IF s = <<>> THEN << x >>
    ELSE IF Head(s)[1] >= x[1]
         THEN << Head(s) >> \o InsertDesc(Tail(s), x)
         ELSE << x >> \o s

RECURSIVE SortDesc(_)
SortDesc(s) ==
    IF s = <<>> THEN <<>>
    ELSE InsertDesc(SortDesc(SubSeq(s, 1, Len(s) - 1)), s[Len(s)])

RECURSIVE SortDesc_Unstable(_)
SortDesc_Unstable(s) ==
    IF s = <<>> THEN <<>>
    ELSE InsertDesc_Unstable(SortDesc_Unstable(SubSeq(s, 1, Len(s) - 1)), s[Len(s)])

\* lista_boletins with a sort that does not keep the order of equal dates.
lista_boletins_Unstable(page, getOk) ==
    IF ~getOk THEN <<>> ELSE SortDesc_Unstable(Collect(page))

\* lista_boletins without the sort of line 64.
lista_boletins_NoSort(page, getOk) ==
    IF ~getOk THEN <<>> ELSE Collect(page)

\* The list lista_boletins returns: [] when the GET fails, else the sorted
\* candidates.  (Only used when the loop does not raise.)
lista_boletins(page, getOk) ==
    IF ~getOk THEN <<>> ELSE SortDesc(Collect(page))

\* What a call of lista_boletins() does on each page of the site.
Listagem ==
    [page \in Pages |->
        [raises |-> [getOk \in BOOLEAN |-> getOk /\ LoopRaises(page)],
         boletins |-> [getOk \in BOOLEAN |-> lista_boletins(page, getOk)]]]

(* ------------------------------------------------------- the marker file *)
\* Content of last_bgsds_id.txt: Absent (no file), an ISO date string
\* <<ano, mes, dia>>, or text that is no ISO date (the legacy bulletin
\* number, an empty or unreadable file).
Absent == << >>
Legacy == << 250 >>

\* isoformat that loses the day of the month.
isoformat_NoDay(data) == << data \div 10000, (data \div 100) % 100, 1 >>

\* data.isoformat()
isoformat(data) == << data \div 10000, (data \div 100) % 100, data % 100 >>

\* datetime.fromisoformat(s)
fromisoformat(s) ==
    IF Len(s) = 3 THEN MkDate(s[1], s[2], s[3]) ELSE Raised

\* carrega_ultimo that reads a legacy bulletin number as a far-future date.
carrega_ultimo_Legacy(f) ==
    IF f = Absent THEN None
    ELSE IF Len(f) = 3 THEN fromisoformat(f)
    ELSE 99991231

carrega_ultimo(f) ==
    IF f = Absent THEN None
    ELSE IF fromisoformat(f) = Raised THEN None
    ELSE fromisoformat(f)

\* The file may also hold the date of a bulletin the site no longer lists.
Contents ==
    { Absent, Legacy, isoformat(20240314) } \cup { isoformat(d) : d \in Datas }

(* -------------------------------------------------------------- Telegram *)
\* envia_telegram(mensagem): without both environment variables it prints
\* an error and returns ("none": no POST is made); otherwise it POSTs, and
\* an exception or a non-2xx answer is caught and printed ("fail").
envia_telegram(cfg, postOk) ==
    IF ~cfg THEN "none" ELSE IF postOk THEN "ok" ELSE "fail"

NoMsg == [kind |-> "none", titulo |-> 0, url |-> 0, resumo |-> "none"]

\* mensagem_final of the error branch and of the update branch.
MsgErro == [kind |-> "erro", titulo |-> 0, url |-> 0, resumo |-> "none"]
MsgAtualizacao(titulo_novo, pdf_url, resumo_palavras) ==
    [kind |-> "atualizacao", titulo |-> titulo_novo.n, url |-> pdf_url,
     resumo |-> resumo_palavras]

(* ------------------------------------------------------ document analysis *)
\* resumo_palavras: the keyword report of monta_resumo_palavras, or the
\* "Erro ao analisar o PDF" note when busca_palavras_no_pdf raises.
\* resumo_palavras that hides a failed analysis.
resumo_palavras_Hide(pdfOk) == "palavras"

resumo_palavras(pdfOk) == IF pdfOk THEN "palavras" ELSE "erro"

\* A page of the PDF: ok is FALSE when page.extract_text() raises; texto is
\* what it returns otherwise (<< >> for None or "").
Pagina(ok, texto) == [ok |-> ok, texto |-> texto]

\* "\n".join(textos)
RECURSIVE Join(_)
Join(textos) ==
    IF textos = <<>> THEN <<>>
    ELSE IF Len(textos) = 1 THEN textos[1]
    ELSE textos[1] \o << "\n" >> \o Join(Tail(textos))

\* baixa_pdf_texto: the text of the pages whose extraction does not raise,
\* joined by newlines.
baixa_pdf_texto(paginas) ==
    LET lidas == SelectSeq(paginas, LAMBDA pg : pg.ok)
    IN  Join([i \in 1..Len(lidas) |-> lidas[i].texto])

\* "p_norm in texto_lower": str.__contains__, scanning the text from the left.
IsPrefix(p, t) == Len(p) <= Len(t) /\ SubSeq(t, 1, Len(p)) = p

RECURSIVE Contains(_, _)
Contains(p, t) ==
    IF IsPrefix(p, t) THEN TRUE
    ELSE IF t = <<>> THEN FALSE
    ELSE Contains(p, Tail(t))

\* resultado[p] = ok on a dict kept as the sequence of its items: a new key
\* goes to the end, a key already there keeps its place.
SetItem(resultado, p, ok) ==
    IF \E i \in 1..Len(resultado) : resultado[i][1] = p
    THEN [i \in 1..Len(resultado) |->
             IF resultado[i][1] = p THEN << p, ok >> ELSE resultado[i]]
    ELSE Append(resultado, << p, ok >>)

\* The loop of busca_palavras_no_pdf comparing p itself, not p.lower().
RECURSIVE Busca_NoLower(_, _, _)
Busca_NoLower(texto_lower, palavras, resultado) ==
    IF palavras = <<>> THEN resultado
    ELSE Busca_NoLower(texto_lower, Tail(palavras),
             SetItem(resultado, Head(palavras),
                     Contains(Head(palavras), texto_lower)))

\* The loop of busca_palavras_no_pdf over palavras.
RECURSIVE Busca(_, _, _)
Busca(texto_lower, palavras, resultado) ==
    IF palavras = <<>> THEN resultado
    ELSE Busca(texto_lower, Tail(palavras),
             SetItem(resultado, Head(palavras),
                     Contains(lower(Head(palavras)), texto_lower)))

\* busca_palavras_no_pdf that looks for the keyword as it is written.
busca_palavras_no_pdf_NoLower(paginas, palavras) ==
    Busca_NoLower(lower(baixa_pdf_texto(paginas)), palavras, <<>>)

busca_palavras_no_pdf(paginas, palavras) ==
    Busca(lower(baixa_pdf_texto(paginas)), palavras, <<>>)

\* monta_resumo_palavras: one line per item of the dict, in its order.
monta_resumo_palavras(resultado) ==
    [i \in 1..Len(resultado) |->
        << resultado[i][1],
           IF resultado[i][2] THEN "encontrada" ELSE "nao encontrada" >>]

(* ------------------------------------------------------------------ state *)
VARIABLES
    site,       \* the listing page: a sequence of <a> elements
    file,       \* content of last_bgsds_id.txt
    run,        \* run[p]: the invocation of main() by process p
    prev,       \* what the invocation that ended last did (history)
    enviados,   \* enviados[d]: update notifications handed to Telegram for d
    changed,    \* dates of the earlier runs that took the update branch
    probe       \* a function of the program applied to one input

vars == << site, file, run, prev, enviados, changed, probe >>

\* No function under test: the monitor itself is running.
NoProbe == [fn |-> "none", in |-> << >>, out |-> << >>, done |-> FALSE]

\* Invocations of main(): Sequencial for the scheduler's one-at-a-time runs.
Procs == {1, 2}
Sequencial == {1}

\* The locals of main() before it starts.
Fresh ==
    [pc |-> "idle", cfg |-> TRUE, getOk |-> TRUE, boletins |-> <<>>,
     wm0 |-> Absent, loaded |-> FALSE, data_ultima |-> None,
     branch |-> "none", pdfOk |-> TRUE, resumo |-> "none", saved |-> FALSE,
     msg |-> NoMsg, post |-> "none",
     nErro |-> 0, nAtualizacao |-> 0, nCarrega |-> 0, nSalva |-> 0]

Ended(r) == r.pc \in {"done", "crashed"}

\* What is remembered of an invocation once the next one starts.
Summary(r) ==
    [pc |-> r.pc, boletins |-> r.boletins, data_ultima |-> r.data_ultima,
     branch |-> r.branch, kind |-> r.msg.kind]

data_nova(r) == r.boletins[1][1]
titulo_novo(r) == r.boletins[1][2]
pdf_url(r) == r.boletins[1][3]

\* The test with >= for >, with # for >, and left out.
Atualizacao_Ge(ultima, nova) == ultima = None \/ nova >= ultima
Atualizacao_Ne(ultima, nova) == ultima = None \/ nova # ultima
Atualizacao_Sempre(ultima, nova) == TRUE

\* "if data_ultima is None or data_nova > data_ultima"
Atualizacao(ultima, nova) == ultima = None \/ nova > ultima

Init ==
    /\ site \in Pages
    /\ file \in Contents
    /\ run = [p \in Procs |-> Fresh]
    /\ prev = Summary(Fresh)
    /\ enviados = [d \in Datas |-> 0]
    /\ changed = {}
    /\ probe = NoProbe

(* ---------------------------------------------------------------- actions *)
\* The site publishes a link on top of the page.
Publica ==
    /\ Len(site) < MaxLinks
    /\ \E a \in Links : site' = << a >> \o site
    /\ UNCHANGED << file, run, prev, enviados, changed, probe >>

\* The site withdraws a link from the page.
Retira ==
    /\ \E i \in 1..Len(site) :
         site' = SubSeq(site, 1, i - 1) \o SubSeq(site, i + 1, Len(site))
    /\ UNCHANGED << file, run, prev, enviados, changed, probe >>

\* main() starts: boletins = lista_boletins().  cfg is the process's
\* environment (both Telegram variables set or not), getOk the outcome of
\* requests.get + raise_for_status.
MainLista(p) ==
    /\ run[p].pc = "idle" \/ Ended(run[p])
    /\ \E cfg \in BOOLEAN, getOk \in BOOLEAN :
         LET r0 == [Fresh EXCEPT !.cfg = cfg, !.getOk = getOk, !.wm0 = file]
         IN  run' = [run EXCEPT ![p] =
                 IF Listagem[site].raises[getOk]
                 THEN [r0 EXCEPT !.pc = "crashed"]
                 ELSE [r0 EXCEPT !.pc = "listed",
                                 !.boletins = Listagem[site].boletins[getOk]]]
    /\ prev' = IF Ended(run[p]) THEN Summary(run[p]) ELSE prev
    /\ changed' = IF run[p].pc = "done" /\ run[p].branch = "CHANGED"
                  THEN changed \cup { data_nova(run[p]) } ELSE changed
    /\ UNCHANGED << site, file, enviados, probe >>

\* The error branch returning without a message.
MainErro_Silent(p) ==
    /\ run[p].pc = "listed"
    /\ run[p].boletins = <<>>
    /\ run' = [run EXCEPT ![p].pc = "done", ![p].branch = "ERROR"]
    /\ UNCHANGED << site, file, prev, enviados, changed, probe >>

\* An error branch that reads the marker file before it sends the message.
MainErro_Carrega(p) ==
    /\ run[p].pc = "listed"
    /\ run[p].boletins = <<>>
    /\ \E postOk \in BOOLEAN :
         run' = [run EXCEPT ![p].pc = "done", ![p].branch = "ERROR",
                            ![p].loaded = TRUE, ![p].nCarrega = @ + 1,
                            ![p].data_ultima = carrega_ultimo(file),
                            ![p].msg = MsgErro, ![p].nErro = @ + 1,
                            ![p].post = envia_telegram(run[p].cfg, postOk)]
    /\ UNCHANGED << site, file, prev, enviados, changed, probe >>

\* "if not boletins": the error message is sent and main returns.
MainErro(p) ==
    /\ run[p].pc = "listed"
    /\ run[p].boletins = <<>>
    /\ \E postOk \in BOOLEAN :
         run' = [run EXCEPT ![p].pc = "done", ![p].branch = "ERROR",
                            ![p].msg = MsgErro, ![p].nErro = @ + 1,
                            ![p].post = envia_telegram(run[p].cfg, postOk)]
    /\ UNCHANGED << site, file, prev, enviados, changed, probe >>

\* data_ultima = carrega_ultimo() and the test of line 153; the else
\* branch only prints and main returns.
MainCarrega(p) ==
    /\ run[p].pc = "listed"
    /\ run[p].boletins # <<>>
    /\ LET ultima == carrega_ultimo(file)
       IN  run' = [run EXCEPT ![p].loaded = TRUE, ![p].data_ultima = ultima,
                     ![p].nCarrega = @ + 1,
                     ![p].pc = IF Atualizacao(ultima, data_nova(run[p]))
                               THEN "changed" ELSE "done",
                     ![p].branch = IF Atualizacao(ultima, data_nova(run[p]))
                                   THEN "CHANGED" ELSE "UNCHANGED"]
    /\ UNCHANGED << site, file, prev, enviados, changed, probe >>

\* Step 1 without the try/except: a failed analysis leaves main.
MainAnalisa_Raise(p) ==
    /\ run[p].pc = "changed"
    /\ \E pdfOk \in BOOLEAN :
         run' = [run EXCEPT ![p].pc = IF pdfOk THEN "analysed" ELSE "crashed",
                            ![p].pdfOk = pdfOk,
                            ![p].resumo = resumo_palavras(pdfOk)]
    /\ UNCHANGED << site, file, prev, enviados, changed, probe >>

\* 1) the keyword search, with its try/except.
MainAnalisa(p) ==
    /\ run[p].pc = "changed"
    /\ \E pdfOk \in BOOLEAN :
         run' = [run EXCEPT ![p].pc = "analysed", ![p].pdfOk = pdfOk,
                            ![p].resumo = resumo_palavras(pdfOk)]
    /\ UNCHANGED << site, file, prev, enviados, changed, probe >>

\* Step 3 without the write.
MainSalva_Skip(p) ==
    /\ run[p].pc = "analysed"
    /\ run' = [run EXCEPT ![p].pc = "saved", ![p].saved = TRUE]
    /\ UNCHANGED << site, file, prev, enviados, changed, probe >>

\* 3) salva_ultimo(data_nova)
MainSalva(p) ==
    /\ run[p].pc = "analysed"
    /\ file' = isoformat(data_nova(run[p]))
    /\ run' = [run EXCEPT ![p].pc = "saved", ![p].saved = TRUE,
                         ![p].nSalva = @ + 1]
    /\ UNCHANGED << site, prev, enviados, changed, probe >>

\* 4) envia_telegram(mensagem_final), and main returns.
MainEnvia(p) ==
    /\ run[p].pc = "saved"
    /\ \E postOk \in BOOLEAN :
         run' = [run EXCEPT ![p].pc = "done", ![p].nAtualizacao = @ + 1,
                   ![p].msg = MsgAtualizacao(titulo_novo(run[p]),
                                  pdf_url(run[p]), run[p].resumo),
                   ![p].post = envia_telegram(run[p].cfg, postOk)]
    /\ enviados' = [enviados EXCEPT ![data_nova(run[p])] = @ + 1]
    /\ UNCHANGED << site, file, prev, changed, probe >>

main(p) ==
    \/ MainLista(p)
    \/ MainErro(p)
    \/ MainCarrega(p)
    \/ MainAnalisa(p)
    \/ MainSalva(p)
    \/ MainEnvia(p)

\* Runs one after the other, as the scheduler starts them.
Next ==
    \/ Publica
    \/ Retira
    \/ \E p \in Sequencial : main(p)

Spec == Init /\ [][Next]_vars

\* The site keeps its listing while the scheduler keeps starting runs, and
\* a started run goes on to its end.
NextStable == \E p \in Sequencial : main(p)

StableSpec == Init /\ [][NextStable]_vars /\ WF_vars(NextStable)

\* Two invocations started without waiting for each other, on a site that
\* keeps its listing: their steps interleave in any order.
NextOverlap == \E p \in Procs : main(p)

OverlapSpec == Init /\ [][NextOverlap]_vars

(* ------------------------------------------- the functions on their own *)
\* Link texts for parse_data: with and without the series marker, the token
\* in front of the date in either case or another word, every day number up
\* to MaxDia, months in either case, unknown or not three letters, and years
\* including 0000.
TextosProva ==
    { Texto(0, marker, de, dia, mes, ano) :
        marker \in { "BGSDS", "" },
        de \in { << "D", "E" >>, << "d", "e" >>, << "E", "M" >> },
        dia \in 0..MaxDia,
        mes \in { << "M", "A", "R" >>, << "m", "a", "r" >>,
                  << "F", "e", "v" >>, << "A", "B", "R" >>,
                  << "X", "Y", "Z" >>, << "M", "4", "R" >> },
        ano \in { 0, 2023, 2024 } }

\* Listing pages for lista_boletins: the links of the site, a second link
\* of 16MAR2024 written in lower case, and bulletin 250 without href.
T251b == Texto(253, "BGSDS", << "d", "e" >>, 16, << "m", "a", "r" >>, 2024)

LinksProva == Links \cup { Link(T251b, 253), Link(T250, 0) }

PagesProva == SeqsUpTo(LinksProva, MaxLista)

\* PDFs and keyword lists for busca_palavras_no_pdf.
Letras == { "p", "P", "n" }

RECURSIVE TextosAte(_)
TextosAte(n) ==
    IF n = 0 THEN { <<>> }
    ELSE TextosAte(n - 1) \cup { Append(t, c) : t \in TextosAte(n - 1), c \in Letras }

PaginasProva ==
    LET pgs == { Pagina(TRUE, t) : t \in TextosAte(MaxTexto) }
                   \cup { Pagina(FALSE, <<>>) }
    IN  { << a >> : a \in pgs } \cup { << a, b >> : a \in pgs, b \in pgs }

PalavrasProva ==
    SeqsUpTo({ << "P" >>, << "p", "N" >>, << "n", "p" >>, << "\n" >>, <<>> },
             MaxPalavras)

Pending(fn, in) == [fn |-> fn, in |-> in, out |-> << >>, done |-> FALSE]

InitPure ==
    /\ site = <<>>
    /\ file = Absent
    /\ run = [p \in Procs |-> Fresh]
    /\ prev = Summary(Fresh)
    /\ enviados = [d \in Datas |-> 0]
    /\ changed = {}
    /\ \/ \E t \in TextosProva : probe = Pending("parse_data", t)
       \/ \E page \in PagesProva : probe = Pending("lista_boletins", page)
       \/ \E pdf \in PaginasProva, palavras \in PalavrasProva :
             probe = Pending("busca_palavras_no_pdf",
                             [paginas |-> pdf, palavras |-> palavras])

Returned(out) ==
    /\ probe' = [probe EXCEPT !.out = out, !.done = TRUE]
    /\ UNCHANGED << site, file, run, prev, enviados, changed >>

CallParseData ==
    /\ probe.fn = "parse_data" /\ ~probe.done
    /\ Returned(parse_data(probe.in))

\* The GET succeeds; the call raises when parse_data does.
CallListaBoletins ==
    /\ probe.fn = "lista_boletins" /\ ~probe.done
    /\ Returned([raises |-> LoopRaises(probe.in),
                 boletins |-> IF LoopRaises(probe.in) THEN <<>>
                              ELSE lista_boletins(probe.in, TRUE)])

\* The download succeeds; the report and the lines of the summary.
CallBuscaPalavras ==
    /\ probe.fn = "busca_palavras_no_pdf" /\ ~probe.done
    /\ LET resultado ==
               busca_palavras_no_pdf(probe.in.paginas, probe.in.palavras)
       IN  Returned([resultado |-> resultado,
                     linhas |-> monta_resumo_palavras(resultado)])

NextPure ==
    \/ CallParseData
    \/ CallListaBoletins
    \/ CallBuscaPalavras

PureSpec == InitPure /\ [][NextPure]_vars

TypeOK ==
    /\ site \in Pages
    /\ file \in Contents
    /\ \A p \in Procs : run[p].pc \in
          {"idle", "listed", "changed", "analysed", "saved", "done", "crashed"}
    /\ \A d \in Datas : enviados[d] \in Nat
    /\ changed \subseteq Datas

(* ----------------------------------------------------------- properties *)
\* A run dispatches a notification when main hands a message to
\* envia_telegram (msg.kind); post tells what became of the POST.
Notifs(kind) == IF kind = "atualizacao" THEN 1 ELSE 0

\* C1: in a run that takes the update branch the marker file is written
\* only after the dispatch has been attempted, and when the POST fails the
\* file at the end of the run is still what it was at the start.
C1_WriteAfterDispatch ==
    \A p \in Procs :
        /\ run[p].saved => run[p].msg.kind = "atualizacao"
        /\ (run[p].pc = "done" /\ run[p].branch = "CHANGED"
              /\ run[p].post = "fail") => file = run[p].wm0

\* C2: whatever the failures of the listing, of the document fetch and of
\* the POST, no bulletin date has more than one update notification
\* dispatched over all the runs.
C2_AtMostOnce == \A d \in Datas : enviados[d] <= 1

\* A date was notified once, a listing failure followed, and the run after
\* it found the same bulletin on top and stayed silent.
C2_Witness ==
    /\ run[1].pc = "done" /\ run[1].branch = "UNCHANGED"
    /\ enviados[data_nova(run[1])] = 1
    /\ prev.branch = "ERROR"

\* Two runs in succession that listed the same bulletins.
SameListingTwice ==
    /\ run[1].pc = "done" /\ prev.pc = "done"
    /\ run[1].boletins # <<>>
    /\ prev.boletins = run[1].boletins

\* C3 as stated: for any starting marker, two runs in succession on the
\* same non-empty listing dispatch exactly one notification in total, in
\* the first run, and the second run leaves the marker file as it found it.
C3_ExactlyOne ==
    SameListingTwice =>
        /\ Notifs(prev.kind) + Notifs(run[1].msg.kind) = 1
        /\ run[1].msg.kind = "none"
        /\ file = run[1].wm0

\* C3 amended: the second of two runs in succession on the same non-empty
\* listing dispatches nothing and leaves the marker file as it found it;
\* the first dispatches exactly one notification when it loaded no marker
\* or one older than the newest bulletin, and none otherwise.
C3_Idempotent ==
    SameListingTwice =>
        /\ run[1].msg.kind = "none"
        /\ ~run[1].saved /\ file = run[1].wm0
        /\ Notifs(prev.kind) =
             IF Atualizacao(prev.data_ultima, prev.boletins[1][1]) THEN 1 ELSE 0

\* The first run notified, the second ran on the same listing.
C3_Witness == SameListingTwice /\ prev.kind = "atualizacao"

\* C4: right after a run that took the update branch the stored marker is
\* the date of that run's newest candidate, and a later run whose newest
\* candidate is as old or older than that of such a run dispatches nothing.
C4_Progression ==
    \A p \in Sequencial :
        /\ (run[p].pc = "done" /\ run[p].branch = "CHANGED")
              => carrega_ultimo(file) = data_nova(run[p])
        /\ (run[p].pc = "done" /\ run[p].boletins # <<>>
              /\ \E d \in changed : data_nova(run[p]) <= d)
              => (run[p].msg.kind = "none" /\ run[p].post = "none")

\* A run that followed an update for a newer date found an older bulletin
\* on top.
C4_Witness ==
    /\ run[1].pc = "done" /\ run[1].boletins # <<>>
    /\ \E d \in changed : data_nova(run[1]) < d
    /\ prev.branch = "CHANGED"

\* C5: a run with a non-empty listing dispatches the update notification
\* (with the newest candidate's title and link) and writes the marker when
\* the marker it found is absent or older than the newest candidate, and
\* otherwise dispatches nothing and leaves the file as it was.
C5_Decision ==
    \A p \in Sequencial :
        (run[p].pc = "done" /\ run[p].boletins # <<>>) =>
            LET r == run[p]
                newer == \/ carrega_ultimo(r.wm0) = None
                         \/ data_nova(r) > carrega_ultimo(r.wm0)
            IN  /\ (r.msg.kind = "atualizacao") <=> newer
                /\ r.saved <=> newer
                /\ newer => /\ r.msg.titulo = titulo_novo(r).n
                            /\ r.msg.url = pdf_url(r)
                            /\ file = isoformat(data_nova(r))
                            /\ r.cfg => r.post # "none"
                /\ ~newer => (file = r.wm0 /\ r.post = "none")

\* The update branch taken over a readable, older marker.
C5_Witness ==
    /\ run[1].pc = "done" /\ run[1].branch = "CHANGED"
    /\ run[1].data_ultima # None
    /\ run[1].msg.kind = "atualizacao"

\* C6: a run whose listing GET fails ends in the error state: the error
\* message is dispatched (and POSTed when the credentials are set), the
\* marker is neither loaded nor written, and no update is notified.
C6_ListingFailure ==
    \A p \in Sequencial :
        (Ended(run[p]) /\ ~run[p].getOk) =>
            /\ run[p].pc = "done" /\ run[p].branch = "ERROR"
            /\ run[p].msg = MsgErro
            /\ run[p].cfg => run[p].post # "none"
            /\ ~run[p].loaded /\ ~run[p].saved
            /\ file = run[p].wm0

\* The GET failed while the site showed a bulletin newer than the marker.
C6_Witness ==
    /\ run[1].pc = "done" /\ ~run[1].getOk
    /\ lista_boletins(site, TRUE) # <<>>
    /\ ~LoopRaises(site)
    /\ Atualizacao(carrega_ultimo(file), lista_boletins(site, TRUE)[1][1])

\* C7: a run whose listing GET succeeds but yields no candidate dispatches
\* no message of any kind and does not write the marker.
C7_EmptyListing ==
    \A p \in Procs :
        (run[p].pc = "done" /\ run[p].getOk /\ run[p].boletins = <<>>) =>
            /\ run[p].msg.kind = "none"
            /\ run[p].post = "none"
            /\ ~run[p].saved /\ file = run[p].wm0

\* C8: when the document analysis fails in the update branch, the update
\* is still dispatched, carrying the failure note instead of the keyword
\* report, and the marker becomes the candidate's date.
C8_DegradedAnalysis ==
    \A p \in Sequencial :
        (Ended(run[p]) /\ run[p].branch = "CHANGED" /\ ~run[p].pdfOk) =>
            /\ run[p].msg.kind = "atualizacao"
            /\ run[p].msg.resumo = "erro"
            /\ run[p].msg.titulo = titulo_novo(run[p]).n
            /\ run[p].cfg => run[p].post # "none"
            /\ carrega_ultimo(file) = data_nova(run[p])

\* The analysis failed and the message was delivered.
C8_Witness ==
    /\ run[1].pc = "done" /\ run[1].branch = "CHANGED"
    /\ ~run[1].pdfOk /\ run[1].post = "ok"

\* C9: a run without the Telegram credentials fails before it acts on a
\* bulletin: nothing is POSTed, the marker is not written and the file
\* ends the run as it started it.
C9_ConfigError ==
    \A p \in Procs :
        (Ended(run[p]) /\ ~run[p].cfg) =>
            /\ run[p].post = "none"
            /\ ~run[p].saved
            /\ file = run[p].wm0

\* C10: a marker file that is not an ISO date is loaded as "no marker":
\* the run takes the update branch, dispatches the update for the newest
\* candidate and overwrites the file with that candidate's date.
C10_FailOpen ==
    \A p \in Sequencial :
        (run[p].loaded /\ run[p].wm0 = Legacy) =>
            /\ run[p].data_ultima = None
            /\ run[p].branch = "CHANGED"
            /\ run[p].pc = "done" =>
                 /\ run[p].msg.kind = "atualizacao"
                 /\ run[p].msg.titulo = titulo_novo(run[p]).n
                 /\ file = isoformat(data_nova(run[p]))

\* A run that started on a legacy marker replaced it.
C10_Witness ==
    /\ run[1].pc = "done" /\ run[1].wm0 = Legacy
    /\ run[1].loaded /\ file # Legacy

\* The date of the bulletin on top of what the site lists now.
Topo(page) ==
    IF Listagem[page].raises[TRUE] \/ Listagem[page].boletins[TRUE] = <<>>
    THEN None
    ELSE Listagem[page].boletins[TRUE][1][1]

\* The run of process p ended after a failed POST of the update for d.
DispatchFailed(p, d) ==
    /\ run[p].pc = "done" /\ run[p].branch = "CHANGED"
    /\ run[p].post = "fail"
    /\ data_nova(run[p]) = d

\* A run ended that had the credentials and got the listing page.
GoodRunEnded == run[1].pc = "done" /\ run[1].cfg /\ run[1].getOk

\* C11: once the POST of the update for a bulletin has failed, and as long
\* as that bulletin stays on top of the site while runs that reach the site
\* keep being made, a later run dispatches the update for it again.
C11_Retry ==
    \A d \in Datas :
        []<>GoodRunEnded =>
            [](DispatchFailed(1, d) => <>(enviados[d] >= 2 \/ Topo(site) # d))

\* C12: two invocations that found the same marker file and the same
\* listing do not both dispatch the update for the same bulletin.
C12_Serialized ==
    \A p, q \in Procs :
        (/\ p # q
         /\ run[p].wm0 = run[q].wm0
         /\ run[p].boletins = run[q].boletins
         /\ run[p].msg.kind = "atualizacao")
            => run[q].msg.kind # "atualizacao"

\* C13: over runs made one after the other, a marker file that holds a
\* date never comes to hold an older one, whatever the site lists.
C13_NeverRegresses ==
    [][carrega_ultimo(file) # None
          => carrega_ultimo(file') >= carrega_ultimo(file)]_vars

\* A run ended that found on top a bulletin older than the marker an
\* earlier run had written.
C13_Witness ==
    /\ run[1].pc = "done" /\ run[1].boletins # <<>>
    /\ data_nova(run[1]) < carrega_ultimo(file)
    /\ carrega_ultimo(file) \in changed
    /\ ~run[1].saved

\* C14: a run in which the listing GET, the document analysis or the POST
\* fails is never ended by an exception: it always has a next step until it
\* is done, and a failed listing GET ends it in the error branch.
C14_NoCrash ==
    \A p \in Sequencial :
        /\ (~run[p].getOk \/ ~run[p].pdfOk \/ run[p].post = "fail")
              => run[p].pc # "crashed"
        /\ run[p].pc \in {"listed", "changed", "analysed", "saved"}
              => ENABLED main(p)
        /\ (run[p].pc = "done" /\ ~run[p].getOk) => run[p].branch = "ERROR"

\* A run ended normally after a failed analysis and a failed POST, the run
\* before it after a failed listing GET.
C14_Witness ==
    /\ run[1].pc = "done" /\ run[1].branch = "CHANGED"
    /\ ~run[1].pdfOk /\ run[1].post = "fail"
    /\ prev.pc = "done" /\ prev.branch = "ERROR"

\* The links that carry the marker, an href and a date of the calendar, as
\* candidates in page order.
ValidCandidates(page) ==
    LET ok(a) == /\ a.texto.marker = "BGSDS"
                 /\ a.href # 0
                 /\ parse_data(a.texto) > 0
        kept == SelectSeq(page, ok)
    IN  [i \in 1..Len(kept) |-> Candidate(kept[i])]

\* C15: when the listing page is fetched, a link whose text matches the
\* pattern but names no day of the calendar is dropped alone: the call of
\* lista_boletins returns the other candidates, sorted, and the run goes on
\* with them.
C15_DroppedOnly ==
    [][\A p \in Procs :
          (/\ run'[p] # run[p]
           /\ run'[p].pc \in {"listed", "crashed"}
           /\ run'[p].getOk)
             => /\ run'[p].pc = "listed"
                /\ run'[p].boletins = SortDesc(ValidCandidates(site))]_vars

\* What C16 says of the run of process p in one state.
NewestOnly(p) ==
    LET r == run[p]
    IN  r.boletins # <<>> =>
          /\ \A i \in 1..Len(r.boletins) : data_nova(r) >= r.boletins[i][1]
          /\ r.loaded =>
               (r.branch = "CHANGED" <=>
                   (r.data_ultima = None \/ data_nova(r) > r.data_ultima))
          /\ r.msg.kind = "atualizacao" =>
               /\ r.nAtualizacao = 1
               /\ \E i \in 1..Len(r.boletins) :
                     /\ r.boletins[i][2].n = r.msg.titulo
                     /\ \A j \in 1..Len(r.boletins) :
                           r.boletins[i][1] >= r.boletins[j][1]
               /\ carrega_ultimo(file) = data_nova(r)

\* C16: a run compares, analyses and notifies only the candidate with the
\* greatest date of its listing; when it finds several bulletins newer than
\* the marker it dispatches one update, for the newest, and the marker
\* becomes the newest date, and no step ever dispatches an update for a
\* date older than the marker, so the bulletins in between stay unnotified.
C16_NewestOnly ==
    [][/\ \A p \in Sequencial : NewestOnly(p)'
       /\ \A d \in Datas :
             enviados'[d] # enviados[d] =>
                /\ enviados'[d] = enviados[d] + 1
                /\ d = carrega_ultimo(file)
                /\ \A e \in Datas : e # d => enviados'[e] = enviados[e]]_vars

\* A run found two bulletins newer than the marker and notified the newer;
\* the next run finds the older of the two on top and stays silent, and
\* that bulletin has never been notified.
C16_Witness ==
    /\ prev.pc = "done" /\ prev.branch = "CHANGED" /\ Len(prev.boletins) = 2
    /\ prev.boletins[2][1] < prev.boletins[1][1]
    /\ prev.data_ultima < prev.boletins[2][1]
    /\ run[1].pc = "done" /\ run[1].boletins # <<>>
    /\ data_nova(run[1]) = prev.boletins[2][1]
    /\ run[1].msg.kind = "none"
    /\ enviados[prev.boletins[2][1]] = 0

\* C17: whenever lista_boletins returns, the list holds exactly the links of
\* the page that qualify as candidates, a candidate dated later stands before
\* every candidate dated earlier, and candidates of the same date stand in
\* the order the page has them.
Qualifies(a) ==
    /\ a.texto.marker = "BGSDS"
    /\ a.href # 0
    /\ parse_data(a.texto) > 0

\* Where the k-th qualifying link of the page has to stand in the list.
Lugar(c, k) ==
    1 + Cardinality({ j \in 1..Len(c) :
                         parse_data(c[j].texto) > parse_data(c[k].texto) })
      + Cardinality({ j \in 1..(k - 1) :
                         parse_data(c[j].texto) = parse_data(c[k].texto) })

C17_SortedStable ==
    (probe.fn = "lista_boletins" /\ probe.done /\ ~probe.out.raises) =>
        LET c == SelectSeq(probe.in, Qualifies)
            b == probe.out.boletins
        IN  /\ Len(b) = Len(c)
            /\ \A k \in 1..Len(c) :
                  b[Lugar(c, k)] = << parse_data(c[k].texto), c[k].texto, c[k].href >>
            /\ \A i, j \in 1..Len(b) : i < j => b[i][1] >= b[j][1]

\* A page that lists an older bulletin first and then two of the same date.
C17_Witness ==
    /\ probe.fn = "lista_boletins" /\ probe.done /\ ~probe.out.raises
    /\ Len(probe.out.boletins) = 3
    /\ probe.out.boletins[1][1] = probe.out.boletins[2][1]
    /\ probe.out.boletins[1][2] # probe.out.boletins[2][2]
    /\ probe.out.boletins[3][1] < probe.out.boletins[2][1]
    /\ probe.in[1].texto = probe.out.boletins[3][2]

\* C18 (as stated): parse_data returns, for every label that matches the
\* pattern with a month of the table, the date whose day, month and year are
\* the ones written in the label, and returns no match for every label
\* without the token in front of the date or with a month not in the table.
Matches(t) ==
    /\ lower(t.de) = << "d", "e" >>
    /\ t.dia \in 0..99
    /\ t.ano \in 0..9999
    /\ Len(t.mes) = 3

Written(t) == t.ano * 10000 + MESES(upper(t.mes)) * 100 + t.dia

C18_Literal ==
    (probe.fn = "parse_data" /\ probe.done) =>
        /\ (Matches(probe.in) /\ MESES(upper(probe.in.mes)) # 0)
              => probe.out = Written(probe.in)
        /\ (lower(probe.in.de) # << "d", "e" >> \/ MESES(upper(probe.in.mes)) = 0)
              => probe.out = None

\* C18 (amended): for a label that matches the pattern in any letter case
\* with a month of the table, parse_data returns the date written in the
\* label when that is a date of the calendar and raises when it is not; for
\* a label without the token in front of the date or with a month not in
\* the table it returns no match; the series marker makes no difference.
OnCalendar(t) ==
    /\ t.ano >= 1
    /\ t.dia >= 1
    /\ t.dia <= DaysInMonth(t.ano, MESES(upper(t.mes)))

C18_LiteralOnCalendar ==
    (probe.fn = "parse_data" /\ probe.done) =>
        /\ (Matches(probe.in) /\ MESES(upper(probe.in.mes)) # 0 /\ OnCalendar(probe.in))
              => probe.out = Written(probe.in)
        /\ (Matches(probe.in) /\ MESES(upper(probe.in.mes)) # 0 /\ ~OnCalendar(probe.in))
              => probe.out = Raised
        /\ (lower(probe.in.de) # << "d", "e" >> \/ MESES(upper(probe.in.mes)) = 0)
              => probe.out = None

\* "de 29Fev2024" without the series marker gives 29 February 2024.
C18_Witness ==
    /\ probe.fn = "parse_data" /\ probe.done
    /\ probe.in.marker = ""
    /\ probe.in.de = << "d", "e" >>
    /\ probe.in.mes = << "F", "e", "v" >>
    /\ probe.in.dia = 29
    /\ probe.out = 20240229

\* C19: the report of busca_palavras_no_pdf has exactly one entry for each
\* configured keyword and no other entry, the entries stand in the order in
\* which the keywords first appear in the configuration, the flag of an
\* entry is true exactly when the lower-cased keyword occurs at some position
\* of the lower-cased extracted text, and the summary has one line per entry
\* in the same order.
Occurs(palavra, texto) ==
    \E k \in 0..(Len(texto) - Len(palavra)) :
        \A m \in 1..Len(palavra) : texto[k + m] = palavra[m]

Primeira(palavras, palavra) ==
    CHOOSE k \in 1..Len(palavras) :
        /\ palavras[k] = palavra
        /\ \A m \in 1..(k - 1) : palavras[m] # palavra

C19_KeywordReport ==
    (probe.fn = "busca_palavras_no_pdf" /\ probe.done) =>
        LET palavras == probe.in.palavras
            texto == baixa_pdf_texto(probe.in.paginas)
            r == probe.out.resultado
        IN  /\ \A k \in 1..Len(palavras) :
                  Cardinality({ i \in 1..Len(r) : r[i][1] = palavras[k] }) = 1
            /\ \A i \in 1..Len(r) : \E k \in 1..Len(palavras) : r[i][1] = palavras[k]
            /\ \A i, j \in 1..Len(r) :
                  i < j => Primeira(palavras, r[i][1]) < Primeira(palavras, r[j][1])
            /\ \A i \in 1..Len(r) :
                  r[i][2] <=> Occurs(lower(r[i][1]), lower(texto))
            /\ Len(probe.out.linhas) = Len(r)
            /\ \A i \in 1..Len(r) : probe.out.linhas[i][1] = r[i][1]

\* Text "Pn" on the only readable page: keyword "pN" is found, "np" is not.
C19_Witness ==
    /\ probe.fn = "busca_palavras_no_pdf" /\ probe.done
    /\ probe.in.paginas = << Pagina(TRUE, << "P", "n" >>), Pagina(FALSE, <<>>) >>
    /\ probe.in.palavras = << << "p", "N" >>, << "n", "p" >> >>
    /\ probe.out.resultado = << << << "p", "N" >>, TRUE >>, << << "n", "p" >>, FALSE >> >>

\* C20: in every run of main() envia_telegram is called at most once,
\* carrega_ultimo at most once and salva_ultimo at most once; a run never
\* sends both the error message and the update message; and a run that sends
\* the error message neither reads nor writes the marker file, which keeps
\* the content it had when the run started.
C20_OncePerRun ==
    \A p \in Sequencial :
        /\ run[p].nErro + run[p].nAtualizacao <= 1
        /\ run[p].nCarrega <= 1
        /\ run[p].nSalva <= 1
        /\ (run[p].msg.kind = "none") <=> (run[p].nErro + run[p].nAtualizacao = 0)
        /\ (run[p].msg.kind = "erro") <=> (run[p].nErro = 1)
        /\ (run[p].nErro > 0) =>
              /\ run[p].nCarrega = 0 /\ ~run[p].loaded
              /\ run[p].nSalva = 0 /\ ~run[p].saved
              /\ file = run[p].wm0

\* A run that notified an update, then a run that sends the error message
\* and leaves the date the first one wrote.
C20_Witness ==
    /\ prev.pc = "done" /\ prev.kind = "atualizacao"
    /\ run[1].pc = "done" /\ run[1].nErro = 1 /\ run[1].nAtualizacao = 0
    /\ run[1].nCarrega = 0 /\ run[1].nSalva = 0
    /\ file = isoformat(prev.boletins[1][1])
====
